---- MODULE Spec2Model ----
(***************************************************************************)
(* Result-distribution pipeline of the BrightSign NPU object extension:    *)
(* the inference producer, the shared result queue, the three publisher    *)
(* threads wired in main(), the formatters they call and the shutdown      *)
(* path (signal handler and main's cleanup).                               *)
(* Besides the whole pipeline (Spec, LiveSpec) the module has the          *)
(* FileTransport with a direct caller (FileSpec), one Publisher writing    *)
(* through a FileTransport (FileSinkSpec), a formatter called on its own   *)
(* (FormatSpec), main()'s class selection (ArgsSpec) and main()'s          *)
(* single-shot mode (ShotSpec).                                            *)
(*                                                                         *)
(* Strings are modelled as sequences of tokens (TLA+ strings), so the      *)
(* empty std::string is the empty sequence <<>>.                           *)
(***************************************************************************)
EXTENDS Integers, Sequences, FiniteSets, TLC

\* ------------------------------------------------------------------ bounds

\* Number of frames the producer infers in the bounded specification.
MaxFrames == 2

\* Number of signals (SIGINT, SIGTERM) delivered to the process.
MaxSignals == 1

\* Longest detection list handed to a formatter on its own.
MaxDetections == 2

\* Longest --classes value, in pieces (words, commas, blanks).
MaxArgLen == 4

\* ------------------------------------------------------- program constants

\* Faulty variant of QueueDepth: a queue constructed with room for two results.
QueueDepthTwo == 1 + 1

\* ThreadSafeQueue<InferenceResult> resultQueue(1): the queue's depth.
QueueDepth == 1

\* The three publishers main() constructs in continuous mode.
Publishers == {"file", "udp_json", "udp_bs"}

\* ------------------------------------------------------------- data model

\* object_detect_result: prop is the confidence in percent.
Detection(cls_id, name, prop) ==
    [cls_id |-> cls_id, name |-> name, prop |-> prop, box |-> <<10, 10, 50, 50>>]

\* A default-constructed InferenceResult (the publisher's local `result`).
NoResult == [timestamp |-> 0, detections |-> <<>>, selected_classes |-> <<>>]

\* The detection lists the inference step may produce for the scene.
SampleDetections == { <<>>, <<Detection(0, "person", 90)>> }

\* main(): selected_classes after "ensure selected_classes always has class 0"
\* when no --classes option is given.
DefaultSelectedClasses == <<0>>

\* ------------------------------------------------------------- utils.cc

RECURSIVE Contains(_, _)
Contains(seq, x) ==
    IF seq = <<>> THEN FALSE
    ELSE IF Head(seq) = x THEN TRUE ELSE Contains(Tail(seq), x)

\* Faulty variant of isClassSelected: an empty filter selects nothing.
isClassSelectedStrict(class_id, selected_classes) ==
    Contains(selected_classes, class_id)

isClassSelected(class_id, selected_classes) ==
    IF selected_classes = <<>> THEN TRUE
    ELSE Contains(selected_classes, class_id)

\* A string is the sequence of its pieces: a word of letters, a comma, a
\* blank or a tab.
Whitespace == {" ", "\t"}

\* std::getline(ss, class_name, ','): the pieces of `str` between commas; a
\* comma at the very end opens no further piece.
RECURSIVE SplitAtCommas(_)
SplitAtCommas(str) ==
    IF str = <<>> THEN <<>>
    ELSE IF \E i \in 1..Len(str) : str[i] = ","
         THEN LET i == CHOOSE k \in 1..Len(str) :
                           str[k] = "," /\ \A m \in 1..(k - 1) : str[m] # ","
              IN <<SubSeq(str, 1, i - 1)>> \o SplitAtCommas(SubSeq(str, i + 1, Len(str)))
         ELSE <<str>>

\* class_name.erase(0, class_name.find_first_not_of(" \t"))
RECURSIVE TrimLeft(_)
TrimLeft(str) ==
    IF str = <<>> THEN <<>>
    ELSE IF Head(str) \in Whitespace THEN TrimLeft(Tail(str)) ELSE str

\* Faulty variant of TrimRight: trailing blanks and tabs are kept.
TrimRightNone(str) == str

\* class_name.erase(class_name.find_last_not_of(" \t") + 1)
RECURSIVE TrimRight(_)
TrimRight(str) ==
    IF str = <<>> THEN <<>>
    ELSE IF str[Len(str)] \in Whitespace
         THEN TrimRight(SubSeq(str, 1, Len(str) - 1))
         ELSE str

\* The loop of parseClassNames over the pieces.
RECURSIVE LookupNames(_, _)
LookupNames(pieces, class_mapping) ==
    IF pieces = <<>> THEN <<>>
    ELSE LET class_name == TrimRight(TrimLeft(Head(pieces)))
             rest == LookupNames(Tail(pieces), class_mapping)
         IN IF class_name # <<>> /\ class_name \in DOMAIN class_mapping
            THEN <<class_mapping[class_name]>> \o rest
            ELSE rest

parseClassNames(str, class_mapping) ==
    IF str = <<>> THEN <<>>
    ELSE LookupNames(SplitAtCommas(str), class_mapping)

\* loadCocoClassMapping: the ids of the labels "person" and "car" in
\* coco_80_labels_list.txt, or nothing when the file cannot be opened.
CocoMapping == [name \in {<<"person">>, <<"car">>} |->
                  IF name = <<"person">> THEN 0 ELSE 2]
loadCocoClassMapping(found) ==
    IF found THEN CocoMapping ELSE [name \in {} |-> 0]

\* ------------------------------------------------------------ formatters

\* Every object key the formatters emit, in the byte order in which
\* nlohmann::json (a std::map) dumps the keys of an object.
KeyOrder == <<"bbox", "bottom", "car", "class_id", "class_name", "confidence",
              "detection_count", "detections", "faces_attending",
              "faces_in_frame_total", "left", "people", "person", "right",
              "timestamp", "top", "vehicle">>

Str(s) == <<"\"", s, "\"">>
Num(n) == <<ToString(n)>>

RECURSIVE DumpFrom(_, _, _)
DumpFrom(obj, i, first) ==
    IF i > Len(KeyOrder) THEN <<>>
    ELSE IF KeyOrder[i] \in DOMAIN obj
         THEN (IF first THEN <<>> ELSE <<",">>)
              \o Str(KeyOrder[i]) \o <<":">> \o obj[KeyOrder[i]]
              \o DumpFrom(obj, i + 1, FALSE)
         ELSE DumpFrom(obj, i + 1, first)

\* json::dump() of an object whose values are already rendered.
Dump(obj) == <<"{">> \o DumpFrom(obj, 1, TRUE) \o <<"}">>

\* j[key] = value, and class_counts[key]++ on a map.
Put(obj, key, value) ==
    [k \in (DOMAIN obj) \cup {key} |-> IF k = key THEN value ELSE obj[k]]
Incr(counts, key) ==
    Put(counts, key, IF key \in DOMAIN counts THEN counts[key] + 1 ELSE 1)

IsInvalid(detection) == detection.prop <= 0 \/ detection.cls_id < 0

\* MappedMessageFormatter::extractSelectedClasses
RECURSIVE extractSelectedClasses(_, _)
extractSelectedClasses(detections, selected_classes) ==
    IF detections = <<>> THEN <<>>
    ELSE LET d == Head(detections)
             rest == extractSelectedClasses(Tail(detections), selected_classes)
         IN IF IsInvalid(d) THEN rest
            ELSE IF isClassSelected(d.cls_id, selected_classes)
                 THEN <<d>> \o rest
                 ELSE rest

\* MappedMessageFormatter::mapClassName
mapClassName(class_mapping, original_name) ==
    IF original_name \in DOMAIN class_mapping
    THEN class_mapping[original_name]
    ELSE original_name

\* Faulty variant of JsonCounts: the class filter is not consulted.
RECURSIVE JsonCountsUnfiltered(_, _, _)
JsonCountsUnfiltered(detections, selected_classes, counts) ==
    IF detections = <<>> THEN counts
    ELSE LET d == Head(detections) IN
         IF IsInvalid(d)
         THEN JsonCountsUnfiltered(Tail(detections), selected_classes, counts)
         ELSE JsonCountsUnfiltered(Tail(detections), selected_classes,
                                   Incr(counts, d.name))

\* The counting loop of JsonMessageFormatter::formatMessage.
RECURSIVE JsonCounts(_, _, _)
JsonCounts(detections, selected_classes, counts) ==
    IF detections = <<>> THEN counts
    ELSE LET d == Head(detections) IN
         IF IsInvalid(d) \/ ~isClassSelected(d.cls_id, selected_classes)
         THEN JsonCounts(Tail(detections), selected_classes, counts)
         ELSE JsonCounts(Tail(detections), selected_classes, Incr(counts, d.name))

\* The counting loop of the Selective formatters.
RECURSIVE MappedCounts(_, _, _)
MappedCounts(selected, class_mapping, counts) ==
    IF selected = <<>> THEN counts
    ELSE MappedCounts(Tail(selected), class_mapping,
                      Incr(counts, mapClassName(class_mapping, Head(selected).name)))

\* "for (const auto& [class_name, count] : class_counts) j[class_name] = count"
RECURSIVE PutCounts(_, _, _)
PutCounts(obj, counts, keys) ==
    IF keys = {} THEN obj
    ELSE LET k == CHOOSE x \in keys : TRUE
         IN PutCounts(Put(obj, k, Num(counts[k])), counts, keys \ {k})

PersonFloor == [k \in {"person"} |-> 0]
TimestampOnly(result) == [k \in {"timestamp"} |-> Num(result.timestamp)]

JsonFormat(result) ==
    LET counts == JsonCounts(result.detections, result.selected_classes, PersonFloor)
    IN Dump(PutCounts(TimestampOnly(result), counts, DOMAIN counts))

\* Faulty variant of SelectiveCounts: class_counts starts empty.
SelectiveCountsNoFloor(result, class_mapping) ==
    MappedCounts(extractSelectedClasses(result.detections, result.selected_classes),
                 class_mapping, [k \in {} |-> 0])

SelectiveCounts(result, class_mapping) ==
    MappedCounts(extractSelectedClasses(result.detections, result.selected_classes),
                 class_mapping, PersonFloor)

SelectiveJsonFormat(result, class_mapping) ==
    LET counts == SelectiveCounts(result, class_mapping)
    IN Dump(PutCounts(TimestampOnly(result), counts, DOMAIN counts))

\* Faulty variant of BSEntries: a separator precedes every entry.
RECURSIVE BSEntriesLeading(_, _, _)
BSEntriesLeading(counts, order, first) ==
    IF order = <<>> THEN <<>>
    ELSE IF Head(order) \in DOMAIN counts
         THEN <<"!!">> \o <<Head(order), ":">> \o Num(counts[Head(order)])
              \o BSEntriesLeading(counts, Tail(order), FALSE)
         ELSE BSEntriesLeading(counts, Tail(order), first)

\* The entries of class_counts in the order `order` lists the keys.
RECURSIVE BSEntries(_, _, _)
BSEntries(counts, order, first) ==
    IF order = <<>> THEN <<>>
    ELSE IF Head(order) \in DOMAIN counts
         THEN (IF first THEN <<>> ELSE <<"!!">>)
              \o <<Head(order), ":">> \o Num(counts[Head(order)])
              \o BSEntries(counts, Tail(order), FALSE)
         ELSE BSEntries(counts, Tail(order), first)

\* `order` is the iteration order of the std::unordered_map class_counts.
SelectiveBSFormat(result, class_mapping, order) ==
    LET entries == BSEntries(SelectiveCounts(result, class_mapping), order, TRUE)
    IN entries \o (IF entries # <<>> THEN <<"!!">> ELSE <<>>)
       \o <<"timestamp", ":">> \o Num(result.timestamp)

DetectionJson(d) ==
    Dump([k \in {"class_id", "class_name", "confidence", "bbox"} |->
            CASE k = "class_id" -> Num(d.cls_id)
              [] k = "class_name" -> Str(d.name)
              [] k = "confidence" -> Num(d.prop)
              [] k = "bbox" ->
                   Dump([b \in {"left", "top", "right", "bottom"} |->
                           CASE b = "left" -> Num(d.box[1])
                             [] b = "top" -> Num(d.box[2])
                             [] b = "right" -> Num(d.box[3])
                             [] b = "bottom" -> Num(d.box[4])])])

RECURSIVE JoinArray(_, _)
JoinArray(items, first) ==
    IF items = <<>> THEN <<>>
    ELSE (IF first THEN <<>> ELSE <<",">>) \o DetectionJson(Head(items))
         \o JoinArray(Tail(items), FALSE)

\* Faulty variant of FullJsonFormat: every detection is listed.
FullJsonFormatUnfiltered(result, suppress) ==
    LET detections == result.detections
    IN IF suppress /\ detections = <<>> THEN <<>>
       ELSE Dump([k \in {"timestamp", "detections", "detection_count"} |->
                    CASE k = "timestamp" -> Num(result.timestamp)
                      [] k = "detections" ->
                           <<"[">> \o JoinArray(detections, TRUE) \o <<"]">>
                      [] k = "detection_count" -> Num(Len(detections))])

FullJsonFormat(result, suppress) ==
    LET detections == extractSelectedClasses(result.detections, result.selected_classes)
    IN IF suppress /\ detections = <<>> THEN <<>>
       ELSE Dump([k \in {"timestamp", "detections", "detection_count"} |->
                    CASE k = "timestamp" -> Num(result.timestamp)
                      [] k = "detections" ->
                           <<"[">> \o JoinArray(detections, TRUE) \o <<"]">>
                      [] k = "detection_count" -> Num(Len(detections))])

\* BSVariableMessageFormatter::formatMessage: result.detections.count is the
\* length of the detection list.
BSVariableFormat(result) ==
    <<"detection_count", ":">> \o Num(Len(result.detections)) \o <<"!!">>
    \o <<"timestamp", ":">> \o Num(result.timestamp)

\* Faulty variant of PeopleCount: detections with confidence 0 are skipped.
RECURSIVE PeopleCountValid(_)
PeopleCountValid(detections) ==
    IF detections = <<>> THEN 0
    ELSE (IF Head(detections).cls_id = 0 /\ Head(detections).prop > 0 THEN 1 ELSE 0)
         + PeopleCountValid(Tail(detections))

\* The counting loop of the Faces formatters: detections with cls_id == 0.
RECURSIVE PeopleCount(_)
PeopleCount(detections) ==
    IF detections = <<>> THEN 0
    ELSE (IF Head(detections).cls_id = 0 THEN 1 ELSE 0) + PeopleCount(Tail(detections))

\* FacesJsonMessageFormatter::formatMessage
FacesJsonFormat(result) ==
    LET people_count == PeopleCount(result.detections)
    IN Dump([k \in {"faces_in_frame_total", "faces_attending", "timestamp"} |->
               CASE k = "faces_in_frame_total" -> Num(people_count)
                 [] k = "faces_attending" -> Num(people_count)
                 [] k = "timestamp" -> Num(result.timestamp)])

\* FacesBSMessageFormatter::formatMessage
FacesBSFormat(result) ==
    LET people_count == PeopleCount(result.detections)
    IN <<"faces_in_frame_total", ":">> \o Num(people_count) \o <<"!!">>
       \o <<"faces_attending", ":">> \o Num(people_count) \o <<"!!">>
       \o <<"timestamp", ":">> \o Num(result.timestamp)

\* No rename table: SelectiveJsonMessageFormatter() and
\* SelectiveBSMessageFormatter() as main() constructs them.
NoMapping == [k \in {} |-> ""]

\* The rename table of the repository's class-name mapping test.
TestMapping == [k \in {"person", "car"} |->
                  IF k = "person" THEN "people" ELSE "vehicle"]

\* A rename table that renames person only.
PeopleMapping == [k \in {"person"} |-> "people"]

\* formatter->formatMessage(result) for a formatter of class `kind` whose
\* members are suppress_empty = suppress and class_mapping; the formatters
\* other than the Selective ones never read class_mapping.
formatMessage(kind, suppress, class_mapping, order, result) ==
    CASE kind = "Json" -> JsonFormat(result)
      [] kind = "SelectiveJson" -> SelectiveJsonFormat(result, class_mapping)
      [] kind = "SelectiveBS" -> SelectiveBSFormat(result, class_mapping, order)
      [] kind = "FullJson" -> FullJsonFormat(result, suppress)
      [] kind = "BSVariable" -> BSVariableFormat(result)
      [] kind = "FacesJson" -> FacesJsonFormat(result)
      [] kind = "FacesBS" -> FacesBSFormat(result)

\* The seven MessageFormatter classes of publisher.h.
FormatterKinds == {"Json", "BSVariable", "FacesJson", "FacesBS", "SelectiveJson",
                   "SelectiveBS", "FullJson"}

\* ------------------------------------------------------------------ state

VARIABLES
    running,        \* std::atomic<bool> running (main.cpp)
    queue,          \* resultQueue: the pending results, oldest first
    shutdown,       \* resultQueue: set by signalShutdown()
    pcMain,         \* main(): position in the continuous-mode tail
    joined,         \* main(): number of threads joined so far
    pcSig,          \* signalHandler: position
    signals,        \* number of signals delivered so far
    scene,          \* what the camera sees: the detections of every frame
    pcProd,         \* inference thread: position
    frame,          \* inference thread: frames inferred so far
    produced,       \* inference thread: the result being handed over
    formatter,      \* per publisher: class of its MessageFormatter
    suppress_empty, \* --suppress-empty, handed to the file sink's formatter
    connected,      \* per publisher: transport->isConnected()
    pc,             \* per publisher: position in Publisher::operator()
    result,         \* per publisher: the local InferenceResult
    message,        \* per publisher: the formatted message of this cycle
    sendCalls,      \* per publisher: transport->send calls since its last pop
    drainedClosed,  \* history: some pop returned a value after signalShutdown()
    target_mps,     \* per publisher: messages_per_second it was constructed with
    dir,            \* FileTransport: the parent directory at construction time
    pcSend,         \* FileTransport::send: position of the call in progress
    sendData,       \* FileTransport::send: its argument `data`
    sendRet,        \* FileTransport::send: the value returned by the last call
    tmpFile,        \* file system: content at filepath + ".tmp", or Absent
    targetFile,     \* file system: content at filepath
    tmpSynced,      \* file system: the temp file's content was fsync'ed
    sendTrace,      \* history: file operations of the send in progress, in order
    delivered,      \* history: payloads of the sends that returned true
    sendBeganOpen,  \* history: the send in progress began before signalShutdown()
    fmtResult,      \* formatter call: the InferenceResult passed to formatMessage
    fmtKind,        \* formatter call: class of the formatter called last
    fmtSuppress,    \* formatter call: its suppress_empty constructor argument
    fmtMapping,     \* formatter call: its class_mapping member
    fmtOrder,       \* formatter call: iteration order of its unordered_map
    fmtOut,         \* formatter call: the string formatMessage returned
    fmtAgain,       \* formatter call: <<the string a repeated call returned>>
    selCall,        \* isClassSelected call: <<class_id, returned value>>
    classes_str,    \* main(): the value given to --classes ("" when absent)
    labelsFound,    \* main(): the labels file could be read
    pcArgs,         \* main(): position around the class selection
    selected_classes, \* main(): the class filter
    parseRet        \* parseClassNames call: <<the vector it returned>>

vars == <<running, queue, shutdown, pcMain, joined, pcSig, signals, scene, pcProd,
          frame, produced, formatter, suppress_empty, connected, pc, result,
          message, sendCalls, drainedClosed, target_mps, dir, pcSend, sendData,
          sendRet, tmpFile, targetFile, tmpSynced, sendTrace, delivered,
          sendBeganOpen, fmtResult, fmtKind, fmtSuppress, fmtMapping, fmtOrder,
          fmtOut, fmtAgain, selCall, classes_str, labelsFound, pcArgs,
          selected_classes, parseRet>>

mainVars == <<pcMain, joined>>
sigVars == <<pcSig, signals>>
prodVars == <<scene, pcProd, frame, produced>>
wiringVars == <<formatter, suppress_empty, connected, target_mps, dir>>
fileVars == <<pcSend, sendData, sendRet, tmpFile, targetFile, tmpSynced, sendTrace,
              delivered, sendBeganOpen>>
fmtVars == <<fmtResult, fmtKind, fmtSuppress, fmtMapping, fmtOrder, fmtOut,
             fmtAgain, selCall>>
argVars == <<classes_str, labelsFound, pcArgs, selected_classes, parseRet>>
pubVars == <<pc, result, message, sendCalls, drainedClosed>>

\* The formatters main() hands to the three publishers.
MainWiring == [p \in Publishers |->
                 CASE p = "file" -> "Json"
                   [] p = "udp_json" -> "SelectiveJson"
                   [] p = "udp_bs" -> "SelectiveBS"]

\* The same pipeline with the file sink's formatter replaced by the
\* FullJsonMessageFormatter, which takes the same suppress_empty argument.
FullJsonWiring == [MainWiring EXCEPT !["file"] = "FullJson"]

\* The same pipeline with the file sink's formatter replaced by the
\* SelectiveJsonMessageFormatter.
SelectiveWiring == [MainWiring EXCEPT !["file"] = "SelectiveJson"]

Wirings == {MainWiring, FullJsonWiring, SelectiveWiring}

\* The command lines and wirings explored: main() as it is, and the file
\* sink formatting with FullJsonMessageFormatter under --suppress-empty.
Configurations ==
    { [formatter |-> MainWiring, suppress_empty |-> FALSE],
      [formatter |-> FullJsonWiring, suppress_empty |-> TRUE] }

\* The command lines and wirings of the file sink explored: each of the
\* three formatters, and main()'s own with and without --suppress-empty.
SinkConfigurations ==
    Configurations \cup
    { [formatter |-> MainWiring, suppress_empty |-> TRUE],
      [formatter |-> SelectiveWiring, suppress_empty |-> FALSE] }

\* Transport health explored: every transport up, or exactly one down.
ConnectedChoices ==
    { c \in [Publishers -> BOOLEAN] : Cardinality({p \in Publishers : ~c[p]}) <= 1 }

\* Iteration orders of the std::unordered_map class_counts (unspecified).
HashOrders == {<<"person", "car", "people", "vehicle">>,
               <<"vehicle", "people", "car", "person">>}

\* Join order of main(): inference thread, then the three publishers.
JoinOrder == <<"inference", "file", "udp_json", "udp_bs">>

\* The mailbox a publisher was constructed with: main() passes the one
\* global resultQueue to every publisher.
mailbox(p) == queue

\* ------------------------------------------------- FileTransport: set-up

\* "No such file" at a path, and whatever the target path held before the
\* transport's first send.
Absent == <<"(absent)">>
InitialContent == <<"(initial content)">>

\* The parent directory of filepath when the constructor runs: filepath has
\* no parent ("none"), the directory exists, create_directories succeeds
\* ("creatable") or create_directories fails ("blocked").
DirStates == {"none", "exists", "creatable", "blocked"}

\* "/tmp" of main()'s "/tmp/results.json": present, or missing and not creatable.
MainDirStates == {"exists", "blocked"}

\* Faulty variant of FileTransportCtor: the create_directories result is ignored.
FileTransportCtorLax(d) == TRUE

\* FileTransport::FileTransport: the value `enabled` is left with.
FileTransportCtor(d) ==
    LET empty == (d = "none")
        exists == (d = "exists")
        created == (d = "creatable")
    IN IF ~empty /\ ~exists
       THEN (IF ~created THEN FALSE ELSE TRUE)
       ELSE TRUE

\* No send has been called yet and the file system is as it was found.
FileIdle ==
    /\ pcSend = "idle"
    /\ sendData = <<>>
    /\ sendRet = FALSE
    /\ tmpFile = Absent
    /\ targetFile = InitialContent
    /\ tmpSynced = FALSE
    /\ sendTrace = <<>>
    /\ delivered = {}
    /\ sendBeganOpen = FALSE

\* No formatter has been called on its own.
FmtIdle ==
    /\ fmtResult = NoResult
    /\ fmtKind = "none"
    /\ fmtSuppress = FALSE
    /\ fmtMapping = NoMapping
    /\ fmtOrder = <<>>
    /\ fmtOut = <<>>
    /\ fmtAgain = <<>>
    /\ selCall = <<>>

\* main() was started without --classes and has selected its classes.
ArgsIdle ==
    /\ classes_str = <<>>
    /\ labelsFound = TRUE
    /\ pcArgs = "run"
    /\ selected_classes = DefaultSelectedClasses
    /\ parseRet = <<>>

TypeOK ==
    /\ running \in BOOLEAN /\ shutdown \in BOOLEAN
    /\ pcMain \in {"wait", "stop", "close", "join", "exit", "shot_infer",
                  "shot_start", "shot_stop", "shot_close", "shot_join"}
    /\ joined \in 0..Len(JoinOrder)
    /\ pcSig \in {"idle", "flag", "close"}
    /\ signals \in 0..MaxSignals
    /\ pcProd \in {"loop", "push", "done"}
    /\ frame \in 0..MaxFrames
    /\ formatter \in Wirings
    /\ suppress_empty \in BOOLEAN
    /\ connected \in [Publishers -> BOOLEAN]
    /\ pc \in [Publishers -> {"new", "pop", "check", "format", "send", "log",
                              "sleep", "fault", "done"}]
    /\ sendCalls \in [Publishers -> 0..1]
    /\ drainedClosed \in BOOLEAN
    /\ target_mps \in [Publishers -> Int]
    /\ dir \in DirStates
    /\ pcSend \in {"idle", "entry", "open", "write", "flush", "reopen", "fsync",
                   "rename", "ret"}
    /\ sendRet \in BOOLEAN /\ tmpSynced \in BOOLEAN /\ sendBeganOpen \in BOOLEAN
    /\ fmtKind \in FormatterKinds \cup {"none"}
    /\ fmtSuppress \in BOOLEAN

Init ==
    /\ running = TRUE
    /\ queue = <<>>
    /\ shutdown = FALSE
    /\ pcMain = "wait"
    /\ joined = 0
    /\ pcSig = "idle"
    /\ signals = 0
    /\ scene \in SampleDetections
    /\ pcProd = "loop"
    /\ frame = 0
    /\ produced = NoResult
    /\ \E cfg \in Configurations :
          /\ formatter = cfg.formatter
          /\ suppress_empty = cfg.suppress_empty
    /\ connected \in ConnectedChoices
    /\ target_mps = [p \in Publishers |-> 1]
    /\ dir \in MainDirStates
    /\ connected["file"] = FileTransportCtor(dir)
    /\ FileIdle
    /\ FmtIdle
    /\ ArgsIdle
    /\ pc = [p \in Publishers |-> "pop"]
    /\ result = [p \in Publishers |-> NoResult]
    /\ message = [p \in Publishers |-> <<>>]
    /\ sendCalls = [p \in Publishers |-> 0]
    /\ drainedClosed = FALSE

\* ----------------------------------------------------- ThreadSafeQueue

\* push(value): never blocks; a full queue drops its oldest entry.
Push(q, value) ==
    IF Len(q) >= QueueDepth THEN Append(Tail(q), value) ELSE Append(q, value)

\* Faulty variant of PopClosed: a shut-down queue reports closed at once, dropping
\* whatever is still pending.
PopClosedEarly(q, closed) == closed

\* pop(value) returns false: shut down and nothing pending.
PopClosed(q, closed) == closed /\ q = <<>>

\* Faulty variant of SignalShutdown: the flag is toggled, so a second call reopens.
SignalShutdownToggle(closed) == ~closed

\* signalShutdown(): sets the flag (and wakes every waiting consumer).
SignalShutdown(closed) == TRUE

\* ------------------------------------------------------ signal handler

\* SIGINT or SIGTERM is delivered while the process runs.
SignalArrive ==
    /\ pcSig = "idle"
    /\ signals < MaxSignals
    /\ pcMain # "exit"
    /\ pcSig' = "flag"
    /\ signals' = signals + 1
    /\ UNCHANGED <<running, queue, shutdown, mainVars, prodVars, wiringVars, fileVars, fmtVars, argVars, pubVars>>

\* running = false;
SigFlag ==
    /\ pcSig = "flag"
    /\ running' = FALSE
    /\ pcSig' = "close"
    /\ UNCHANGED <<queue, shutdown, signals, mainVars, prodVars, wiringVars, fileVars, fmtVars, argVars, pubVars>>

\* resultQueue.signalShutdown();
SigClose ==
    /\ pcSig = "close"
    /\ shutdown' = SignalShutdown(shutdown)
    /\ pcSig' = "idle"
    /\ UNCHANGED <<running, queue, signals, mainVars, prodVars, wiringVars, fileVars, fmtVars, argVars, pubVars>>

\* ---------------------------------------------------------------- main

\* while (running) sleep(1s);  -- leaves the loop once running is false
MainWait ==
    /\ pcMain = "wait"
    /\ ~running
    /\ pcMain' = "stop"
    /\ UNCHANGED <<running, queue, shutdown, joined, sigVars, prodVars, wiringVars, fileVars, fmtVars, argVars, pubVars>>

\* Faulty variant of MainStop: the cleanup turns the flag on again.
MainStopRestart ==
    /\ pcMain = "stop"
    /\ running' = TRUE
    /\ pcMain' = "close"
    /\ UNCHANGED <<queue, shutdown, joined, sigVars, prodVars, wiringVars, fileVars, fmtVars, argVars, pubVars>>

\* running = false;
MainStop ==
    /\ pcMain = "stop"
    /\ running' = FALSE
    /\ pcMain' = "close"
    /\ UNCHANGED <<queue, shutdown, joined, sigVars, prodVars, wiringVars, fileVars, fmtVars, argVars, pubVars>>

\* resultQueue.signalShutdown();
MainClose ==
    /\ pcMain = "close"
    /\ shutdown' = SignalShutdown(shutdown)
    /\ pcMain' = "join"
    /\ UNCHANGED <<running, queue, joined, sigVars, prodVars, wiringVars, fileVars, fmtVars, argVars, pubVars>>

ThreadDone(t) == IF t = "inference" THEN pcProd = "done" ELSE pc[t] = "done"

\* inferenceThread.join(); file_publisherThread.join(); ...
MainJoin ==
    /\ pcMain = "join"
    /\ joined < Len(JoinOrder)
    /\ ThreadDone(JoinOrder[joined + 1])
    /\ joined' = joined + 1
    /\ UNCHANGED <<running, queue, shutdown, pcMain, sigVars, prodVars, wiringVars, fileVars, fmtVars, argVars, pubVars>>

\* return 0;
MainExit ==
    /\ pcMain = "join"
    /\ joined = Len(JoinOrder)
    /\ pcMain' = "exit"
    /\ UNCHANGED <<running, queue, shutdown, joined, sigVars, prodVars, wiringVars, fileVars, fmtVars, argVars, pubVars>>

\* ---------------------------------------------------- inference thread

\* The InferenceResult of frame number n with detection list d.
NewResult(n, d) ==
    [timestamp |-> n, detections |-> d, selected_classes |-> DefaultSelectedClasses]

\* while (running) { infer one frame ...
ProdInfer ==
    /\ pcProd = "loop"
    /\ running
    /\ frame < MaxFrames
    /\ produced' = NewResult(frame + 1, scene)
    /\ frame' = frame + 1
    /\ pcProd' = "push"
    /\ UNCHANGED <<scene, running, queue, shutdown, mainVars, sigVars, wiringVars, fileVars, fmtVars, argVars, pubVars>>

\* The same step for a camera that never runs out of frames.  Timestamps
\* are whole seconds (to_time_t): the frames of this run fall into one
\* second, so they all carry the same timestamp and are not counted.
ProdInferCyclic ==
    /\ pcProd = "loop"
    /\ running
    /\ produced' = NewResult(frame + 1, scene)
    /\ pcProd' = "push"
    /\ UNCHANGED <<scene, frame, running, queue, shutdown, mainVars, sigVars, wiringVars, fileVars, fmtVars, argVars, pubVars>>

\* ... resultQueue.push(result); }
ProdPush ==
    /\ pcProd = "push"
    /\ queue' = Push(queue, produced)
    /\ pcProd' = "loop"
    /\ UNCHANGED <<running, shutdown, scene, frame, produced, mainVars, sigVars, wiringVars, fileVars, fmtVars, argVars, pubVars>>

\* while (running) is false: the thread function returns.
ProdExit ==
    /\ pcProd = "loop"
    /\ ~running
    /\ pcProd' = "done"
    /\ UNCHANGED <<running, queue, shutdown, scene, frame, produced, mainVars, sigVars, wiringVars, fileVars, fmtVars, argVars, pubVars>>

\* ------------------------------------------------ Publisher::operator()

\* Faulty variant of PubPopValue: the popped result stays in the queue.
PubPopValuePeek(p) ==
    /\ pc[p] = "pop"
    /\ mailbox(p) # <<>>
    /\ result' = [result EXCEPT ![p] = Head(mailbox(p))]
    /\ sendCalls' = [sendCalls EXCEPT ![p] = 0]
    /\ pc' = [pc EXCEPT ![p] = "check"]
    /\ drainedClosed' = (drainedClosed \/ shutdown)
    /\ UNCHANGED <<running, queue, shutdown, message, mainVars, sigVars, prodVars,
                   wiringVars, fileVars, fmtVars, argVars>>

\* resultQueue.pop(result) returns true with the oldest pending result.
PubPopValue(p) ==
    /\ pc[p] = "pop"
    /\ mailbox(p) # <<>>
    /\ result' = [result EXCEPT ![p] = Head(mailbox(p))]
    /\ queue' = Tail(mailbox(p))
    /\ sendCalls' = [sendCalls EXCEPT ![p] = 0]
    /\ pc' = [pc EXCEPT ![p] = "check"]
    /\ drainedClosed' = (drainedClosed \/ shutdown)
    /\ UNCHANGED <<running, shutdown, message, mainVars, sigVars, prodVars, wiringVars, fileVars, fmtVars, argVars>>

\* Faulty variant of PubPopClosed: the loop ignores pop's return value and pops again.
PubPopClosedRetry(p) ==
    /\ pc[p] = "pop"
    /\ PopClosed(mailbox(p), shutdown)
    /\ UNCHANGED vars

\* resultQueue.pop(result) returns false: the while loop ends.
PubPopClosed(p) ==
    /\ pc[p] = "pop"
    /\ PopClosed(mailbox(p), shutdown)
    /\ pc' = [pc EXCEPT ![p] = "done"]
    /\ UNCHANGED <<running, queue, shutdown, result, message, sendCalls,
                   drainedClosed, mainVars, sigVars, prodVars, wiringVars, fileVars, fmtVars, argVars>>

\* Faulty variant of PubSkip: the `continue` is missing, the cycle goes on.
PubSkipMissing(p) ==
    /\ pc[p] = "check"
    /\ ~connected[p]
    /\ pc' = [pc EXCEPT ![p] = "format"]
    /\ UNCHANGED <<running, queue, shutdown, result, message, sendCalls,
                   drainedClosed, mainVars, sigVars, prodVars, wiringVars, fileVars, fmtVars, argVars>>

\* if (!transport->isConnected()) { ...; continue; }
PubSkip(p) ==
    /\ pc[p] = "check"
    /\ ~connected[p]
    /\ pc' = [pc EXCEPT ![p] = "pop"]
    /\ UNCHANGED <<running, queue, shutdown, result, message, sendCalls,
                   drainedClosed, mainVars, sigVars, prodVars, wiringVars, fileVars, fmtVars, argVars>>

\* Faulty variant of PubConnected: the loop paces before it formats and sends.
PubConnectedPaced(p) ==
    /\ pc[p] = "check"
    /\ connected[p]
    /\ pc' = [pc EXCEPT ![p] = "sleep"]
    /\ UNCHANGED <<running, queue, shutdown, result, message, sendCalls,
                   drainedClosed, mainVars, sigVars, prodVars, wiringVars, fileVars, fmtVars, argVars>>

\* transport->isConnected() is true: fall through to the formatter.
PubConnected(p) ==
    /\ pc[p] = "check"
    /\ connected[p]
    /\ pc' = [pc EXCEPT ![p] = "format"]
    /\ UNCHANGED <<running, queue, shutdown, result, message, sendCalls,
                   drainedClosed, mainVars, sigVars, prodVars, wiringVars, fileVars, fmtVars, argVars>>

\* std::string message = formatter->formatMessage(result);
PubFormat(p) ==
    /\ pc[p] = "format"
    /\ \E order \in HashOrders :
          message' = [message EXCEPT ![p] =
              formatMessage(formatter[p], suppress_empty, NoMapping, order,
                            result[p])]
    /\ pc' = [pc EXCEPT ![p] = "send"]
    /\ UNCHANGED <<running, queue, shutdown, result, sendCalls, drainedClosed,
                   mainVars, sigVars, prodVars, wiringVars, fileVars, fmtVars, argVars>>

\* Faulty variant of SendReturns: a failed send ends the task.
SendReturnsFatal(p, ok) ==
    /\ sendCalls' = [sendCalls EXCEPT ![p] = sendCalls[p] + 1]
    /\ pc' = [pc EXCEPT ![p] = IF ok THEN "sleep" ELSE "done"]

\* Faulty variant of SendReturns: a failed send is retried at once.
SendReturnsRetry(p, ok) ==
    /\ sendCalls' = [sendCalls EXCEPT ![p] = sendCalls[p] + 1]
    /\ pc' = [pc EXCEPT ![p] = IF ok THEN "sleep" ELSE "send"]

\* if (!transport->send(message)) ...: `ok` is what send returned; a
\* failed send goes on to the std::cerr line, a successful one to the sleep.
SendReturns(p, ok) ==
    /\ sendCalls' = [sendCalls EXCEPT ![p] = sendCalls[p] + 1]
    /\ pc' = [pc EXCEPT ![p] = IF ok THEN "sleep" ELSE "log"]

PubSend(p) ==
    /\ pc[p] = "send"
    /\ \E ok \in BOOLEAN : SendReturns(p, ok)
    /\ UNCHANGED <<running, queue, shutdown, result, message, drainedClosed,
                   mainVars, sigVars, prodVars, wiringVars, fileVars, fmtVars, argVars>>

\* std::cerr << "Failed to send message via transport";
PubLogFailure(p) ==
    /\ pc[p] = "log"
    /\ pc' = [pc EXCEPT ![p] = "sleep"]
    /\ UNCHANGED <<running, queue, shutdown, result, message, sendCalls,
                   drainedClosed, mainVars, sigVars, prodVars, wiringVars, fileVars, fmtVars, argVars>>

\* sleep_for(1000 / target_mps); the loop body ends and `message` with it.
\* The division is an int division: with target_mps == 0 its behaviour is
\* undefined, the process traps ("fault") or goes on with some interval.
PubSleep(p) ==
    /\ pc[p] = "sleep"
    /\ message' = [message EXCEPT ![p] = <<>>]
    /\ IF target_mps[p] = 0
       THEN \E next \in {"fault", "pop"} : pc' = [pc EXCEPT ![p] = next]
       ELSE pc' = [pc EXCEPT ![p] = "pop"]
    /\ UNCHANGED <<running, queue, shutdown, result, sendCalls, drainedClosed,
                   mainVars, sigVars, prodVars, wiringVars, fileVars, fmtVars, argVars>>

PublisherStep(p) ==
    \/ PubPopValue(p)
    \/ PubPopClosed(p)
    \/ PubSkip(p)
    \/ PubConnected(p)
    \/ PubFormat(p)
    \/ PubSend(p)
    \/ PubLogFailure(p)
    \/ PubSleep(p)

\* ------------------------------------------------- FileTransport::send

pipeVars == <<running, queue, shutdown, mainVars, sigVars, prodVars, wiringVars,
              fmtVars, argVars>>

\* bool FileTransport::isConnected() const { return enabled; }
FileIsConnected == connected["file"]

\* What the temp file may hold after a write that reported failure:
\* nothing, the first half or all of the data.
Prefixes(data) == { SubSeq(data, 1, n) : n \in {0, Len(data) \div 2, Len(data)} }

\* return false;
FsFail == pcSend' = "ret" /\ sendRet' = FALSE

\* if (!enabled) return false;  -- otherwise on to the temp file
FsEntry ==
    /\ pcSend = "entry"
    /\ IF ~FileIsConnected THEN FsFail ELSE (pcSend' = "open" /\ sendRet' = sendRet)
    /\ UNCHANGED <<sendData, tmpFile, targetFile, tmpSynced, sendTrace, delivered,
                   sendBeganOpen, pipeVars, pubVars>>

\* std::ofstream file(temp_filepath, out | trunc); if (!file.is_open()) return false;
FsOpen ==
    /\ pcSend = "open"
    /\ \E ok \in BOOLEAN :
          IF ok
          THEN /\ tmpFile' = <<>>
               /\ tmpSynced' = FALSE
               /\ sendTrace' = Append(sendTrace, "open")
               /\ pcSend' = "write"
               /\ sendRet' = sendRet
          ELSE FsFail /\ UNCHANGED <<tmpFile, tmpSynced, sendTrace>>
    /\ UNCHANGED <<sendData, targetFile, delivered, sendBeganOpen, pipeVars, pubVars>>

\* file << data;  -- the data goes to the stream (its buffer)
FsWrite ==
    /\ pcSend = "write"
    /\ sendTrace' = Append(sendTrace, "write")
    /\ pcSend' = "flush"
    /\ UNCHANGED <<sendData, sendRet, tmpFile, targetFile, tmpSynced, delivered,
                   sendBeganOpen, pipeVars, pubVars>>

\* Faulty variant of FsFlush: a short write is taken for a complete one.
FsFlushShort ==
    /\ pcSend = "flush"
    /\ tmpFile' \in Prefixes(sendData)
    /\ sendTrace' = Append(sendTrace, "flush")
    /\ pcSend' = "reopen"
    /\ sendRet' = sendRet
    /\ UNCHANGED <<sendData, targetFile, tmpSynced, delivered, sendBeganOpen,
                   pipeVars, pubVars>>

\* Faulty variant of FsFlush: a queue shut down meanwhile cancels the send.
FsFlushAbortable ==
    /\ pcSend = "flush"
    /\ IF shutdown
       THEN pcSend' = "idle" /\ UNCHANGED <<tmpFile, sendTrace, sendRet>>
       ELSE /\ tmpFile' = sendData
            /\ sendTrace' = Append(sendTrace, "flush")
            /\ pcSend' = "reopen"
            /\ sendRet' = sendRet
    /\ UNCHANGED <<sendData, targetFile, tmpSynced, delivered, sendBeganOpen,
                   pipeVars, pubVars>>

\* file.flush(); if (file.fail()) return false;
FsFlush ==
    /\ pcSend = "flush"
    /\ \E ok \in BOOLEAN :
          IF ok
          THEN /\ tmpFile' = sendData
               /\ sendTrace' = Append(sendTrace, "flush")
               /\ pcSend' = "reopen"
               /\ sendRet' = sendRet
          ELSE /\ tmpFile' \in Prefixes(sendData)
               /\ FsFail
               /\ sendTrace' = sendTrace
    /\ UNCHANGED <<sendData, targetFile, tmpSynced, delivered, sendBeganOpen,
                   pipeVars, pubVars>>

\* file.close(); int fd = ::open(temp_filepath, O_RDONLY); if (fd != -1) { ...
\* With fd == -1 the fsync block is skipped and the rename follows.
FsReopen ==
    /\ pcSend = "reopen"
    /\ \E fd_ok \in BOOLEAN : pcSend' = IF fd_ok THEN "fsync" ELSE "rename"
    /\ UNCHANGED <<sendData, sendRet, tmpFile, targetFile, tmpSynced, sendTrace,
                   delivered, sendBeganOpen, pipeVars, pubVars>>

\* if (::fsync(fd) != 0) { ::close(fd); return false; } ::close(fd);
FsFsync ==
    /\ pcSend = "fsync"
    /\ \E ok \in BOOLEAN :
          IF ok
          THEN /\ tmpSynced' = TRUE
               /\ sendTrace' = Append(sendTrace, "fsync")
               /\ pcSend' = "rename"
               /\ sendRet' = sendRet
          ELSE FsFail /\ UNCHANGED <<tmpSynced, sendTrace>>
    /\ UNCHANGED <<sendData, tmpFile, targetFile, delivered, sendBeganOpen,
                   pipeVars, pubVars>>

\* Faulty variant of FsRename: a failed rename disables the transport.
FsRenameGivesUp ==
    /\ pcSend = "rename"
    /\ \E ok \in BOOLEAN :
          IF ok
          THEN /\ targetFile' = tmpFile
               /\ tmpFile' = Absent
               /\ sendTrace' = Append(sendTrace, "rename")
               /\ delivered' = delivered \cup {sendData}
               /\ pcSend' = "ret"
               /\ sendRet' = TRUE
               /\ connected' = connected
          ELSE /\ tmpFile' \in {Absent, tmpFile}
               /\ FsFail
               /\ connected' = [connected EXCEPT !["file"] = FALSE]
               /\ UNCHANGED <<targetFile, sendTrace, delivered>>
    /\ UNCHANGED <<sendData, tmpSynced, sendBeganOpen, running, queue, shutdown,
                   mainVars, sigVars, prodVars, formatter, suppress_empty,
                   target_mps, dir, fmtVars, argVars, pubVars>>

\* Faulty variant of FsRename: the clean-up after a failed rename removes the
\* target instead of the temp file.
FsRenameRemovesTarget ==
    /\ pcSend = "rename"
    /\ \E ok \in BOOLEAN :
          IF ok
          THEN /\ targetFile' = tmpFile
               /\ tmpFile' = Absent
               /\ sendTrace' = Append(sendTrace, "rename")
               /\ delivered' = delivered \cup {sendData}
               /\ pcSend' = "ret"
               /\ sendRet' = TRUE
          ELSE /\ targetFile' = Absent
               /\ FsFail
               /\ UNCHANGED <<tmpFile, sendTrace, delivered>>
    /\ UNCHANGED <<sendData, tmpSynced, sendBeganOpen, pipeVars, pubVars>>

\* std::filesystem::rename(temp_filepath, filepath, ec);
\* if (ec) { std::filesystem::remove(temp_filepath, ec); return false; }
\* return true;
FsRename ==
    /\ pcSend = "rename"
    /\ \E ok \in BOOLEAN :
          IF ok
          THEN /\ targetFile' = tmpFile
               /\ tmpFile' = Absent
               /\ sendTrace' = Append(sendTrace, "rename")
               /\ delivered' = delivered \cup {sendData}
               /\ pcSend' = "ret"
               /\ sendRet' = TRUE
          ELSE /\ tmpFile' \in {Absent, tmpFile}
               /\ FsFail
               /\ UNCHANGED <<targetFile, sendTrace, delivered>>
    /\ UNCHANGED <<sendData, tmpSynced, sendBeganOpen, pipeVars, pubVars>>

FileSendStep == FsEntry \/ FsOpen \/ FsWrite \/ FsFlush \/ FsReopen \/ FsFsync \/ FsRename

\* ------------------------------------- Publisher bound to a FileTransport

\* The rates a Publisher is constructed with.
Rates == {-1, 0, 1}

\* Publisher::Publisher stores its five arguments, messages_per_second
\* among them, and checks none; the thread running operator() is started.
PubConstruct(p) ==
    /\ pc[p] = "new"
    /\ pc' = [pc EXCEPT ![p] = "pop"]
    /\ UNCHANGED <<result, message, sendCalls, drainedClosed, pipeVars, fileVars>>

\* transport->send(message) is entered.
PubSendCall(p) ==
    /\ pc[p] = "send"
    /\ pcSend = "idle"
    /\ sendData' = message[p]
    /\ pcSend' = "entry"
    /\ sendTrace' = <<>>
    /\ sendBeganOpen' = ~shutdown
    /\ UNCHANGED <<sendRet, tmpFile, targetFile, tmpSynced, delivered, pipeVars, pubVars>>

\* transport->send(message) returns sendRet to the publisher loop.
PubSendReturn(p) ==
    /\ pc[p] = "send"
    /\ pcSend = "ret"
    /\ SendReturns(p, sendRet)
    /\ pcSend' = "idle"
    /\ UNCHANGED <<result, message, drainedClosed, sendData, sendRet, tmpFile,
                   targetFile, tmpSynced, sendTrace, delivered, sendBeganOpen, pipeVars>>

FileSinkStep ==
    \/ PubConstruct("file")
    \/ PubPopValue("file")
    \/ PubPopClosed("file")
    \/ PubSkip("file")
    \/ PubConnected("file")
    \/ PubFormat("file")
    \/ PubSendCall("file")
    \/ FileSendStep
    \/ PubSendReturn("file")
    \/ PubLogFailure("file")
    \/ PubSleep("file")

\* ---------------------------------------- FileTransport with a direct caller

\* The payloads a caller hands to send.
Payloads == { <<>>, <<"a">>, <<"b", "c">> }

\* transport.send(data) is called.
ClientCall ==
    /\ pcSend = "idle"
    /\ \E data \in Payloads : sendData' = data
    /\ pcSend' = "entry"
    /\ sendTrace' = <<>>
    /\ sendBeganOpen' = ~shutdown
    /\ UNCHANGED <<sendRet, tmpFile, targetFile, tmpSynced, delivered, pipeVars, pubVars>>

\* send has returned sendRet to its caller.
ClientReturn ==
    /\ pcSend = "ret"
    /\ pcSend' = "idle"
    /\ UNCHANGED <<sendData, sendRet, tmpFile, targetFile, tmpSynced, sendTrace,
                   delivered, sendBeganOpen, pipeVars, pubVars>>

\* -------------------------------------------------------- specifications

MainStep == MainWait \/ MainStop \/ MainClose \/ MainJoin \/ MainExit
HandlerStep == SigFlag \/ SigClose
ProducerStep == ProdInfer \/ ProdPush \/ ProdExit
ProducerStepCyclic == ProdInferCyclic \/ ProdPush \/ ProdExit

Next ==
    \/ SignalArrive
    \/ HandlerStep
    \/ MainStep
    \/ ProducerStep
    \/ \E p \in Publishers : PublisherStep(p)

Spec == Init /\ [][Next]_vars

\* The pipeline fed by a camera that never runs out of frames, every thread
\* being scheduled again and again (the handler, once entered, returns).
LiveInit ==
    /\ Init
    /\ formatter = MainWiring
    /\ suppress_empty = FALSE
    /\ scene = <<>>

LiveNext ==
    \/ SignalArrive
    \/ HandlerStep
    \/ MainStep
    \/ ProducerStepCyclic
    \/ \E p \in Publishers : PublisherStep(p)

LiveSpec ==
    /\ LiveInit
    /\ [][LiveNext]_vars
    /\ WF_vars(HandlerStep)
    /\ WF_vars(MainStep)
    /\ WF_vars(ProducerStepCyclic)
    /\ \A p \in Publishers : WF_vars(PublisherStep(p))

\* One FileTransport and a caller of its send; no pipeline thread runs.
FileInit ==
    /\ running = TRUE
    /\ queue = <<>>
    /\ shutdown = FALSE
    /\ pcMain = "wait"
    /\ joined = 0
    /\ pcSig = "idle"
    /\ signals = 0
    /\ scene = <<>>
    /\ pcProd = "loop"
    /\ frame = 0
    /\ produced = NoResult
    /\ formatter = MainWiring
    /\ suppress_empty = FALSE
    /\ dir \in DirStates
    /\ connected = [p \in Publishers |->
                      IF p = "file" THEN FileTransportCtor(dir) ELSE TRUE]
    /\ target_mps = [p \in Publishers |-> 1]
    /\ FileIdle
    /\ FmtIdle
    /\ ArgsIdle
    /\ pc = [p \in Publishers |-> "new"]
    /\ result = [p \in Publishers |-> NoResult]
    /\ message = [p \in Publishers |-> <<>>]
    /\ sendCalls = [p \in Publishers |-> 0]
    /\ drainedClosed = FALSE

FileNext == ClientCall \/ FileSendStep \/ ClientReturn

FileSpec == FileInit /\ [][FileNext]_vars

\* One Publisher writing through a FileTransport, fed by the inference
\* thread and stopped by a signal; the publisher is constructed with any rate.
FileSinkInit ==
    /\ running = TRUE
    /\ queue = <<>>
    /\ shutdown = FALSE
    /\ pcMain = "wait"
    /\ joined = 0
    /\ pcSig = "idle"
    /\ signals = 0
    /\ scene \in SampleDetections
    /\ pcProd = "loop"
    /\ frame = 0
    /\ produced = NoResult
    /\ \E cfg \in SinkConfigurations :
          /\ formatter = cfg.formatter
          /\ suppress_empty = cfg.suppress_empty
    /\ dir \in MainDirStates
    /\ connected = [p \in Publishers |->
                      IF p = "file" THEN FileTransportCtor(dir) ELSE TRUE]
    /\ \E rate \in Rates :
          target_mps = [p \in Publishers |-> IF p = "file" THEN rate ELSE 1]
    /\ FileIdle
    /\ FmtIdle
    /\ ArgsIdle
    /\ pc = [p \in Publishers |-> "new"]
    /\ result = [p \in Publishers |-> NoResult]
    /\ message = [p \in Publishers |-> <<>>]
    /\ sendCalls = [p \in Publishers |-> 0]
    /\ drainedClosed = FALSE

FileSinkNext ==
    \/ SignalArrive
    \/ HandlerStep
    \/ ProducerStep
    \/ FileSinkStep

FileSinkSpec == FileSinkInit /\ [][FileSinkNext]_vars

\* ------------------------------------------- a formatter called on its own

\* The detections a Result handed to a formatter is made of: a person, a
\* person with confidence 0, a car, and an entry with a negative class id.
DetectionPool ==
    { Detection(0, "person", 90), Detection(0, "person", 0),
      Detection(2, "car", 80), Detection(0 - 1, "car", 50) }

\* The class filters (selected_classes): all classes, person, person and
\* car, car only.
Filters == { <<>>, <<0>>, <<0, 2>>, <<2>> }

FormatResults ==
    { [timestamp |-> 7, detections |-> d, selected_classes |-> f] :
        d \in UNION { [1..n -> DetectionPool] : n \in 0..MaxDetections },
        f \in Filters }

\* The rename tables a formatter is constructed with.
Mappings == {NoMapping, PeopleMapping, TestMapping}

\* The class ids isClassSelected is asked about.
ClassIds == {0, 1, 2}

\* A formatter of any of the classes is constructed and
\* formatter->formatMessage(fmtResult) is called on it.
FormatCall ==
    /\ fmtKind = "none"
    /\ \E kind \in FormatterKinds, suppress \in BOOLEAN, mapping \in Mappings,
          order \in HashOrders :
          /\ fmtKind' = kind
          /\ fmtSuppress' = suppress
          /\ fmtMapping' = mapping
          /\ fmtOrder' = order
          /\ fmtOut' = formatMessage(kind, suppress, mapping, order, fmtResult)
    /\ UNCHANGED <<fmtResult, fmtAgain, selCall, running, queue, shutdown, mainVars, sigVars,
                   prodVars, wiringVars, fileVars, argVars, pubVars>>

\* Faulty variant of FormatAgain: the repeated call iterates class_counts in
\* another order than the first call did.
FormatAgainReordered ==
    /\ fmtKind # "none"
    /\ fmtAgain = <<>>
    /\ \E order \in HashOrders :
          fmtAgain' = <<formatMessage(fmtKind, fmtSuppress, fmtMapping, order,
                                      fmtResult)>>
    /\ UNCHANGED <<fmtResult, fmtKind, fmtSuppress, fmtMapping, fmtOrder, fmtOut,
                   selCall, running, queue, shutdown, mainVars, sigVars, prodVars,
                   wiringVars, fileVars, argVars, pubVars>>

\* formatMessage is called once more on the same formatter with the same
\* Result. class_counts is a local built by the same insertions, so it is
\* iterated in the same order; result is a const reference; the members
\* suppress_empty and class_mapping are only read.
FormatAgain ==
    /\ fmtKind # "none"
    /\ fmtAgain = <<>>
    /\ fmtAgain' = <<formatMessage(fmtKind, fmtSuppress, fmtMapping, fmtOrder,
                                   fmtResult)>>
    /\ UNCHANGED <<fmtResult, fmtKind, fmtSuppress, fmtMapping, fmtOrder, fmtOut,
                   selCall, running, queue, shutdown, mainVars, sigVars, prodVars,
                   wiringVars, fileVars, argVars, pubVars>>

\* isClassSelected(class_id, fmtResult.selected_classes) is called.
SelectCall ==
    /\ \E class_id \in ClassIds :
          selCall' = <<class_id, isClassSelected(class_id, fmtResult.selected_classes)>>
    /\ UNCHANGED <<fmtResult, fmtKind, fmtSuppress, fmtMapping, fmtOrder, fmtOut,
                   fmtAgain, running, queue, shutdown, mainVars, sigVars, prodVars,
                   wiringVars, fileVars, argVars, pubVars>>

FormatInit ==
    /\ running = TRUE
    /\ queue = <<>>
    /\ shutdown = FALSE
    /\ pcMain = "wait"
    /\ joined = 0
    /\ pcSig = "idle"
    /\ signals = 0
    /\ scene = <<>>
    /\ pcProd = "loop"
    /\ frame = 0
    /\ produced = NoResult
    /\ formatter = MainWiring
    /\ suppress_empty = FALSE
    /\ dir = "exists"
    /\ connected = [p \in Publishers |-> TRUE]
    /\ target_mps = [p \in Publishers |-> 1]
    /\ FileIdle
    /\ pc = [p \in Publishers |-> "new"]
    /\ result = [p \in Publishers |-> NoResult]
    /\ message = [p \in Publishers |-> <<>>]
    /\ sendCalls = [p \in Publishers |-> 0]
    /\ drainedClosed = FALSE
    /\ fmtResult \in FormatResults
    /\ fmtKind = "none"
    /\ fmtSuppress = FALSE
    /\ fmtMapping = NoMapping
    /\ fmtOrder = <<>>
    /\ fmtOut = <<>>
    /\ fmtAgain = <<>>
    /\ selCall = <<>>
    /\ ArgsIdle

FormatNext == FormatCall \/ FormatAgain \/ SelectCall

FormatSpec == FormatInit /\ [][FormatNext]_vars

\* ------------------------------------------ main(): the class selection

\* The pieces a --classes value is made of, and the values explored.
Pieces == {"person", "car", "robot", ",", " ", "\t"}
ClassArguments == UNION { [1..n -> Pieces] : n \in 0..MaxArgLen }

\* Faulty variant of MainSelectClasses: the filter is used as parsed.
MainSelectClassesAsParsed ==
    /\ pcArgs = "parse"
    /\ LET class_mapping == loadCocoClassMapping(labelsFound)
       IN IF classes_str # <<>> /\ DOMAIN class_mapping = {}
          THEN /\ pcArgs' = "exit"
               /\ selected_classes' = <<>>
          ELSE /\ pcArgs' = "run"
               /\ selected_classes' = parseClassNames(classes_str, class_mapping)
    /\ UNCHANGED <<classes_str, labelsFound, parseRet, running, queue, shutdown, mainVars,
                   sigVars, prodVars, wiringVars, fileVars, fmtVars, pubVars>>

\* main(), from "Parse class names if provided" to "ensure selected_classes
\* always has class 0": return -1 when the labels cannot be loaded,
\* otherwise the filter the inference thread is constructed with.
MainSelectClasses ==
    /\ pcArgs = "parse"
    /\ LET class_mapping == loadCocoClassMapping(labelsFound)
           parsed == IF classes_str # <<>>
                     THEN parseClassNames(classes_str, class_mapping)
                     ELSE <<>>
       IN IF classes_str # <<>> /\ DOMAIN class_mapping = {}
          THEN /\ pcArgs' = "exit"
               /\ selected_classes' = <<>>
          ELSE /\ pcArgs' = "run"
               /\ selected_classes' = IF Contains(parsed, 0) THEN parsed
                                      ELSE Append(parsed, 0)
    /\ UNCHANGED <<classes_str, labelsFound, parseRet, running, queue, shutdown, mainVars,
                   sigVars, prodVars, wiringVars, fileVars, fmtVars, pubVars>>

ArgsInit ==
    /\ running = TRUE
    /\ queue = <<>>
    /\ shutdown = FALSE
    /\ pcMain = "wait"
    /\ joined = 0
    /\ pcSig = "idle"
    /\ signals = 0
    /\ scene = <<>>
    /\ pcProd = "loop"
    /\ frame = 0
    /\ produced = NoResult
    /\ formatter = MainWiring
    /\ suppress_empty = FALSE
    /\ dir = "exists"
    /\ connected = [p \in Publishers |-> TRUE]
    /\ target_mps = [p \in Publishers |-> 1]
    /\ FileIdle
    /\ FmtIdle
    /\ pc = [p \in Publishers |-> "new"]
    /\ result = [p \in Publishers |-> NoResult]
    /\ message = [p \in Publishers |-> <<>>]
    /\ sendCalls = [p \in Publishers |-> 0]
    /\ drainedClosed = FALSE
    /\ classes_str \in ClassArguments
    /\ labelsFound \in BOOLEAN
    /\ pcArgs = "parse"
    /\ selected_classes = <<>>
    /\ parseRet = <<>>

\* parseClassNames(classes_str, class_mapping) is called with the labels'
\* mapping, as the class parsing test calls it.
ParseCall ==
    /\ parseRet = <<>>
    /\ parseRet' = <<parseClassNames(classes_str, CocoMapping)>>
    /\ UNCHANGED <<classes_str, labelsFound, pcArgs, selected_classes, running, queue,
                   shutdown, mainVars, sigVars, prodVars, wiringVars, fileVars,
                   fmtVars, pubVars>>

ArgsNext == MainSelectClasses \/ ParseCall

ArgsSpec == ArgsInit /\ [][ArgsNext]_vars

\* ------------------------------------------- main(): single-shot mode

\* mlThread.runSingleInference(): one frame is inferred on main's thread;
\* a result, if there is one, is pushed into the empty resultQueue.
ShotInfer ==
    /\ pcMain = "shot_infer"
    /\ \E pushed \in BOOLEAN :
          IF pushed
          THEN /\ produced' = NewResult(1, scene)
               /\ frame' = 1
               /\ queue' = Push(queue, NewResult(1, scene))
          ELSE UNCHANGED <<produced, frame, queue>>
    /\ pcProd' = "done"
    /\ pcMain' = "shot_start"
    /\ UNCHANGED <<scene, running, shutdown, joined, sigVars, wiringVars, fileVars,
                   fmtVars, argVars, pubVars>>

\* std::thread file_publisherThread(std::ref(file_publisher)); the sleep of
\* 500 ms that follows orders nothing between the two threads.
ShotStart ==
    /\ pcMain = "shot_start"
    /\ pc' = [pc EXCEPT !["file"] = "pop"]
    /\ pcMain' = "shot_stop"
    /\ UNCHANGED <<running, queue, shutdown, joined, result, message, sendCalls,
                   drainedClosed, sigVars, prodVars, wiringVars, fileVars, fmtVars,
                   argVars>>

\* running = false;
ShotStop ==
    /\ pcMain = "shot_stop"
    /\ running' = FALSE
    /\ pcMain' = "shot_close"
    /\ UNCHANGED <<queue, shutdown, joined, sigVars, prodVars, wiringVars, fileVars,
                   fmtVars, argVars, pubVars>>

\* resultQueue.signalShutdown();
ShotClose ==
    /\ pcMain = "shot_close"
    /\ shutdown' = SignalShutdown(shutdown)
    /\ pcMain' = "shot_join"
    /\ UNCHANGED <<running, queue, joined, sigVars, prodVars, wiringVars, fileVars,
                   fmtVars, argVars, pubVars>>

\* file_publisherThread.join();
ShotJoin ==
    /\ pcMain = "shot_join"
    /\ pc["file"] = "done"
    /\ joined' = 1
    /\ pcMain' = "exit"
    /\ UNCHANGED <<running, queue, shutdown, sigVars, prodVars, wiringVars, fileVars,
                   fmtVars, argVars, pubVars>>

\* main() in single-shot mode, about to run its one inference: only the
\* file publisher exists, with the formatter and transport main() gives it.
ShotInit ==
    /\ running = TRUE
    /\ queue = <<>>
    /\ shutdown = FALSE
    /\ pcMain = "shot_infer"
    /\ joined = 0
    /\ pcSig = "idle"
    /\ signals = 0
    /\ scene \in SampleDetections
    /\ pcProd = "loop"
    /\ frame = 0
    /\ produced = NoResult
    /\ formatter = MainWiring
    /\ suppress_empty \in BOOLEAN
    /\ dir \in MainDirStates
    /\ connected = [p \in Publishers |->
                      IF p = "file" THEN FileTransportCtor(dir) ELSE TRUE]
    /\ target_mps = [p \in Publishers |-> 1]
    /\ FileIdle
    /\ FmtIdle
    /\ ArgsIdle
    /\ pc = [p \in Publishers |-> "new"]
    /\ result = [p \in Publishers |-> NoResult]
    /\ message = [p \in Publishers |-> <<>>]
    /\ sendCalls = [p \in Publishers |-> 0]
    /\ drainedClosed = FALSE

ShotMainStep == ShotInfer \/ ShotStart \/ ShotStop \/ ShotClose \/ ShotJoin

ShotNext == ShotMainStep \/ PublisherStep("file")

ShotSpec == ShotInit /\ [][ShotNext]_vars

\* ------------------------------------------------------------- claims

\* A pop by p that returned a value, and one that returned false.
PopReturnedValue(p) == pc[p] = "pop" /\ pc'[p] = "check"
PopReturnedClosed(p) == pc[p] = "pop" /\ pc'[p] = "done"

\* C1: the mailbox holds at most one pending value; once the producer has
\* pushed, the pending value (if any) is the one pushed last, which is what
\* the next pop returns; and push is never blocked, pending value or not.
C1_DropOldest ==
    /\ [](Len(queue) <= 1)
    /\ []((pcProd # "push" /\ queue # <<>>) => queue = <<produced>>)
    /\ [](pcProd = "push" => ENABLED ProdPush)
    /\ [][\A p \in Publishers :
            PopReturnedValue(p) => (queue # <<>> /\ result'[p] = Head(queue))]_vars

\* Two frames were pushed, nobody has popped, and only the second is pending.
C1_Witness ==
    /\ frame = 2 /\ pcProd = "loop"
    /\ \A p \in Publishers : result[p] = NoResult
    /\ queue = <<NewResult(2, scene)>>

\* C2: a pop by one publisher leaves the mailbox of every other publisher
\* as it was (each publisher reads a mailbox of its own).
C2_OwnMailbox ==
    [][\A p \in Publishers : PopReturnedValue(p) =>
          \A q \in Publishers \ {p} : mailbox(q)' = mailbox(q)]_vars

\* C3: with some publisher's transport down, every other (connected)
\* publisher keeps sending for as long as the producer keeps pushing.
C3_Isolation ==
    \A p \in Publishers : \A q \in Publishers \ {p} :
        (~connected[p] /\ connected[q]) =>
            (([]<><<ProdPush>>_vars) => ([]<><<PubSend(q)>>_vars))

\* C4: pop returns false only on a shut-down, empty queue; a value that is
\* pending when pop returns is what pop returns, shut down or not.
C4_ClosedOnlyWhenDrained ==
    /\ [][\A p \in Publishers :
            PopReturnedClosed(p) => (shutdown /\ mailbox(p) = <<>>)]_vars
    /\ [][\A p \in Publishers :
            (pc[p] = "pop" /\ pc'[p] # "pop" /\ mailbox(p) # <<>>) =>
                (pc'[p] = "check" /\ result'[p] = Head(mailbox(p)))]_vars

\* A value pending at signalShutdown() was popped afterwards, and a
\* publisher has since been told that the queue is closed.
C4_Witness ==
    /\ drainedClosed
    /\ \E p \in Publishers : pc[p] = "done"

\* C5: once the queue is shut down no pop blocks (a publisher at pop can
\* always return), and a further signalShutdown() changes nothing.
C5_NoBlockAfterClose ==
    /\ [](shutdown => \A p \in Publishers :
              pc[p] = "pop" => ENABLED PublisherStep(p))
    /\ [][shutdown => shutdown']_vars
    /\ [][(shutdown /\ (pcSig' # pcSig \/ pcMain' # pcMain)) =>
              UNCHANGED <<queue, shutdown, pubVars>>]_vars

\* The handler and main have both called signalShutdown(), and a publisher
\* has returned from pop with the closed indicator.
C5_Witness ==
    /\ ~running /\ pcSig = "idle" /\ signals > 0
    /\ pcMain = "join"
    /\ \E p \in Publishers : pc[p] = "done"

AllPublishersDone == \A p \in Publishers : pc[p] = "done"

\* C6: once running is false and the queue is shut down, every publisher
\* leaves its loop and main's joins complete.
C6_ShutdownTerminates ==
    (~running /\ shutdown) ~> (AllPublishersDone /\ pcMain = "exit")

\* main() has joined every thread and returned; some publisher was still
\* busy at shutdown and popped a pending result afterwards.
C6_Witness ==
    AllPublishersDone /\ pcMain = "exit" /\ joined = Len(JoinOrder) /\ drainedClosed

\* C7: a publisher leaves its loop exactly by a pop that returns false:
\* from no other place, and every pop on a shut-down empty queue ends it.
C7_ExitOnlyOnClosed ==
    /\ [][\A p \in Publishers :
            (pc[p] # "done" /\ pc'[p] = "done") =>
                (pc[p] = "pop" /\ PopClosed(mailbox(p), shutdown))]_vars
    /\ [][\A p \in Publishers :
            (pc[p] = "pop" /\ pc'[p] # "pop" /\ PopClosed(mailbox(p), shutdown))
                => pc'[p] = "done"]_vars
    /\ [](\A p \in Publishers : pc[p] = "done" => shutdown)

\* A publisher whose send failed is still in its loop while another one,
\* whose transport is down, has left on the closed indicator.
C7_Witness ==
    \E p, q \in Publishers :
        /\ pc[p] = "log"
        /\ ~connected[q] /\ result[q] # NoResult /\ pc[q] = "done"

\* C8: send is never called with the empty string.
C8_NoSendOnEmpty ==
    \A p \in Publishers :
        (pc[p] \in {"log", "sleep"} /\ sendCalls[p] > 0) => message[p] # <<>>

\* C9: a publisher whose transport is down never formats or sends: from
\* the isConnected() check it goes straight back to pop.
C9_SkipWhenDisconnected ==
    /\ [](\A p \in Publishers : ~connected[p] =>
              (pc[p] \in {"pop", "check", "done"}
               /\ message[p] = <<>> /\ sendCalls[p] = 0))
    /\ [][\A p \in Publishers :
            (pc[p] = "check" /\ ~connected[p] /\ pc'[p] # "check") =>
                pc'[p] = "pop"]_vars

\* A disconnected publisher has popped the second frame and is back at pop.
C9_Witness ==
    \E p \in Publishers :
        ~connected[p] /\ result[p].timestamp = 2 /\ pc[p] = "pop"

\* C10: at most one send per popped result; after a send, failed or not,
\* the publisher goes on to the sleep and the next pop.
C10_SendAtMostOnce ==
    /\ [](\A p \in Publishers : sendCalls[p] <= 1)
    /\ [][\A p \in Publishers :
            (pc[p] \in {"send", "log"} /\ pc'[p] # pc[p]) =>
                pc'[p] \in {"log", "sleep"}]_vars
    /\ [][\A p \in Publishers :
            (pc[p] = "sleep" /\ pc'[p] # "sleep") => pc'[p] = "pop"]_vars

\* A publisher's send of the second frame failed: it is at the log line,
\* having called send once.
C10_Witness ==
    \E p \in Publishers :
        pc[p] = "log" /\ sendCalls[p] = 1 /\ result[p].timestamp = 2

\* C11: a publisher whose rate is zero or negative is turned down by its
\* constructor: it stays unconstructed, so it never pops, never reaches the
\* pacing division 1000 / target_mps.
C11_RateRejected ==
    \A p \in Publishers : target_mps[p] <= 0 => pc[p] = "new"

\* The number of results the producer has pushed so far; the k-th pushed
\* result is NewResult(k, scene).
Pushed == IF pcProd = "push" THEN frame - 1 ELSE frame

\* C12: what a publisher pops is a subsequence of what was pushed, in push
\* order: every popped result is one of the pushed results, and it was
\* pushed later than the result this publisher popped before it (so no
\* result is popped twice and none after a later-pushed one).
C12_PopOrder ==
    [][\A p \in Publishers : PopReturnedValue(p) =>
          /\ result'[p].timestamp \in 1..Pushed
          /\ result'[p] = NewResult(result'[p].timestamp, scene)
          /\ result'[p].timestamp > result[p].timestamp]_vars

\* Both pushed results have been popped, the first by one publisher and the
\* second by another, and nothing is pending.
C12_Witness ==
    /\ queue = <<>>
    /\ \E p, q \in Publishers :
          /\ p # q
          /\ result[p].timestamp = 1 /\ pc[p] = "sleep"
          /\ result[q].timestamp = 2 /\ pc[q] = "check"

\* C13: a send in progress when the queue is shut down runs to its return:
\* the only way out of a started send is its return into the publisher loop
\* (which counts the call and goes on to the log line or the sleep); the
\* shutdown path changes nothing of the send or the publisher; a started
\* send can always take its next step; and the publisher ends only at a pop.
C13_SendCompletes ==
    /\ [][(pcSend # "idle" /\ pcSend' = "idle") =>
            /\ pcSend = "ret"
            /\ sendCalls'["file"] = sendCalls["file"] + 1
            /\ pc'["file"] \in {"log", "sleep"}]_vars
    /\ [][(pc["file"] = "send" /\ pc'["file"] # "send") => pcSend = "ret"]_vars
    /\ [][(shutdown' # shutdown \/ running' # running) =>
            UNCHANGED <<fileVars, pubVars>>]_vars
    /\ [](pcSend # "idle" => ENABLED (FileSendStep \/ PubSendReturn("file")))
    /\ [][(pc["file"] # "done" /\ pc'["file"] = "done") => pc["file"] = "pop"]_vars

\* A send that began before the queue was shut down has, with the queue
\* shut down meanwhile, renamed its temp file over the target and is about
\* to return true.
C13_Witness ==
    /\ shutdown /\ sendBeganOpen
    /\ pc["file"] = "send" /\ pcSend = "ret" /\ sendRet
    /\ targetFile = message["file"] /\ message["file"] # <<>>

\* The lifecycle phase of the pipeline.
Phase ==
    IF running THEN "Running"
    ELSE IF pcMain = "exit" THEN "Stopped" ELSE "Stopping"

\* C14: the pipeline starts Running and its phase only moves Running ->
\* Stopping -> Stopped: running, once false, stays false; a shut-down queue
\* stays shut down; a thread that has returned stays returned; and once
\* main has returned every thread has returned and nothing of the pipeline
\* changes any more.
C14_Lifecycle ==
    /\ (running = TRUE /\ Phase = "Running")
    /\ [][Phase' # Phase =>
            <<Phase, Phase'>> \in {<<"Running", "Stopping">>, <<"Stopping", "Stopped">>}]_vars
    /\ [][~running => ~running']_vars
    /\ [][shutdown => shutdown']_vars
    /\ [][(\A p \in Publishers : pc[p] = "done" => pc'[p] = "done")
            /\ (pcProd = "done" => pcProd' = "done")]_vars
    /\ [](pcMain = "exit" => (AllPublishersDone /\ pcProd = "done"))
    /\ [][pcMain = "exit" =>
            UNCHANGED <<running, queue, mainVars, prodVars, pubVars>>]_vars

\* Stopped: main has returned after the signal, both frames were produced.
C14_Witness ==
    /\ Phase = "Stopped" /\ shutdown /\ signals = 1 /\ pcSig = "idle"
    /\ frame = 2 /\ pcProd = "done"

\* C15: a publisher sleeps only after the send of the result it popped and
\* pops next: the sleep is entered from the send (or its failure log line)
\* and from nowhere else, with exactly one send call made for the current
\* result, and it is left towards the pop; a publisher that has not popped
\* yet is waiting at the pop, so nothing is slept before the first send.
C15_SleepAfterSend ==
    /\ [](\A p \in Publishers : pc[p] = "sleep" => sendCalls[p] = 1)
    /\ [](\A p \in Publishers : result[p] = NoResult => pc[p] \in {"pop", "done"})
    /\ [][\A p \in Publishers :
            (pc'[p] = "sleep" /\ pc[p] # "sleep") => pc[p] \in {"send", "log"}]_vars
    /\ [][\A p \in Publishers :
            (pc[p] = "sleep" /\ pc'[p] # "sleep") => pc'[p] = "pop"]_vars

\* The first result was popped and sent; its publisher is at the sleep
\* while the producer has not made a second result yet.
C15_Witness ==
    /\ frame = 1
    /\ \E p \in Publishers :
          pc[p] = "sleep" /\ sendCalls[p] = 1 /\ result[p].timestamp = 1

\* C16: the target path always holds either what it held at the start or
\* the whole payload of a send that returned true; its content changes only
\* in the rename step of a send that returns true, and then to that send's
\* complete payload, so a send that returns false has left it unchanged.
C16_TargetAtomic ==
    /\ [](targetFile = InitialContent \/ targetFile \in delivered)
    /\ [][targetFile' # targetFile =>
            (pcSend = "rename" /\ sendRet' /\ targetFile' = sendData)]_vars
    /\ [][(pcSend # "ret" /\ pcSend' = "ret" /\ ~sendRet') =>
            targetFile' = targetFile]_vars

\* After successful sends of both payloads, a further send has failed in
\* its flush with nothing written: the temp file is empty and the target
\* still holds the payload delivered last.
C16_Witness ==
    /\ delivered = { <<"a">>, <<"b", "c">> }
    /\ pcSend = "ret" /\ ~sendRet /\ sendData = <<"a">>
    /\ tmpFile = <<>> /\ targetFile = <<"b", "c">>

\* C17: a send that returns true has opened the temp file, written the
\* data, flushed, fsync'ed the temp file and renamed it, in this order; in
\* particular the temp file renamed over the target has been fsync'ed.
C17_FsyncBeforeRename ==
    (pcSend = "ret" /\ sendRet) =>
        (sendTrace = <<"open", "write", "flush", "fsync", "rename">> /\ tmpSynced)

\* C18: a transport whose directory could not be created reports not
\* connected at every moment, and each of its sends returns false having
\* done no file operation: temp file and target stay as they were.
C18_DisabledTransport ==
    /\ [](dir = "blocked" => ~FileIsConnected)
    /\ [](dir = "blocked" =>
            (pcSend \in {"idle", "entry", "ret"} /\ sendTrace = <<>> /\ ~sendRet))
    /\ [][dir = "blocked" => UNCHANGED <<tmpFile, targetFile, tmpSynced>>]_vars

\* A send of a non-empty payload on such a transport has returned false
\* and no file exists at the temp path.
C18_Witness ==
    /\ dir = "blocked" /\ ~FileIsConnected
    /\ pcSend = "ret" /\ ~sendRet /\ sendData = <<"b", "c">>
    /\ tmpFile = Absent /\ targetFile = InitialContent

\* C19: when the directory of the results file cannot be created, the
\* pipeline does not start: the inference thread infers no frame and no
\* publisher takes a step of its loop.
C19_FatalDirectory ==
    dir = "blocked" =>
        /\ pcProd = "loop" /\ frame = 0 /\ queue = <<>>
        /\ \A p \in Publishers : pc[p] = "pop" /\ result[p] = NoResult

\* The detection list without its invalid entries (confidence <= 0 or
\* class id < 0).
RECURSIVE ValidOnly(_)
ValidOnly(detections) ==
    IF detections = <<>> THEN <<>>
    ELSE (IF IsInvalid(Head(detections)) THEN <<>> ELSE <<Head(detections)>>)
         \o ValidOnly(Tail(detections))

\* C20: for each of the seven formatters, the output for a Result equals
\* the output the same formatter gives for that Result with its invalid
\* detections removed.
C20_InvalidIgnored ==
    fmtKind # "none" =>
        fmtOut = formatMessage(fmtKind, fmtSuppress, fmtMapping, fmtOrder,
                     [fmtResult EXCEPT !.detections = ValidOnly(fmtResult.detections)])

\* C21: isClassSelected returns true for every id when the filter is empty,
\* and for a non-empty filter returns true exactly when the id is one of
\* the filter's elements.
C21_IsClassSelected ==
    selCall # <<>> =>
        LET filter == fmtResult.selected_classes
        IN selCall[2] = (IF Len(filter) = 0 THEN TRUE
                         ELSE \E i \in 1..Len(filter) : filter[i] = selCall[1])

\* An id outside a non-empty filter was asked about and rejected.
C21_Witness ==
    /\ fmtResult.selected_classes = <<0, 2>>
    /\ selCall = <<1, FALSE>>

\* ---- what a reader of the formatters' output sees

\* The numbers a reader recognises in a message.
Numbers == 0..9

\* The number a decimal token stands for.
NumOf(token) == CHOOSE n \in Numbers : ToString(n) = token
IsNumber(token) == \E n \in Numbers : ToString(n) = token

\* Parsing a flat JSON object of "key":number members: ok tells whether the
\* text is one, map is the object read.
ParseObject(tokens) ==
    LET n == Len(tokens)
        body == SubSeq(tokens, 2, n - 1)
        members == (Len(body) + 1) \div 6
        wellFormed ==
            /\ n >= 2 /\ tokens[1] = "{" /\ tokens[n] = "}"
            /\ (Len(body) = 0 \/ (Len(body) + 1) % 6 = 0)
            /\ \A j \in 0..(members - 1) :
                  /\ body[6 * j + 1] = "\"" /\ body[6 * j + 3] = "\""
                  /\ body[6 * j + 4] = ":"
                  /\ IsNumber(body[6 * j + 5])
                  /\ (j < members - 1 => body[6 * j + 6] = ",")
            /\ \A i, j \in 0..(members - 1) :
                  body[6 * i + 2] = body[6 * j + 2] => i = j
    IN IF ~wellFormed THEN [ok |-> FALSE, map |-> <<>>]
       ELSE [ok |-> TRUE,
             map |-> [k \in {body[6 * j + 2] : j \in 0..(members - 1)} |->
                        LET j == CHOOSE i \in 0..(members - 1) : body[6 * i + 2] = k
                        IN NumOf(body[6 * j + 5])]]

\* The positions of the valid, filter-selected detections of a Result.
SelectedIndexes(r) ==
    { i \in 1..Len(r.detections) :
        /\ r.detections[i].prop > 0
        /\ r.detections[i].cls_id >= 0
        /\ \/ Len(r.selected_classes) = 0
           \/ \E f \in 1..Len(r.selected_classes) :
                 r.selected_classes[f] = r.detections[i].cls_id }

\* A class name after the rename table.
Renamed(class_mapping, name) ==
    LET hit == {k \in DOMAIN class_mapping : k = name}
    IN IF hit = {} THEN name ELSE class_mapping[CHOOSE k \in hit : TRUE]

\* Per (renamed) name, the number of valid, filter-selected detections with
\* that name; "person" is always a key.
ExpectedCounts(r, class_mapping) ==
    LET sel == SelectedIndexes(r)
        nameOf(i) == Renamed(class_mapping, r.detections[i].name)
    IN [k \in {nameOf(i) : i \in sel} \cup {"person"} |->
          Cardinality({i \in sel : nameOf(i) = k})]

\* The object a counting JSON message is expected to parse to.
ExpectedObject(r, class_mapping) ==
    LET counts == ExpectedCounts(r, class_mapping)
    IN [k \in DOMAIN counts \cup {"timestamp"} |->
          IF k = "timestamp" THEN r.timestamp ELSE counts[k]]

C23_RenamedOnly ==
    fmtKind = "SelectiveJson" =>
        LET parsed == ParseObject(fmtOut)
            sel == SelectedIndexes(fmtResult)
            withName(name) == {i \in sel : fmtResult.detections[i].name = name}
        IN /\ parsed.ok
           /\ \A name \in DOMAIN fmtMapping :
                 withName(name) # {} =>
                     /\ \A t \in 1..Len(fmtOut) : fmtOut[t] # name
                     /\ fmtMapping[name] \in DOMAIN parsed.map
                     /\ parsed.map[fmtMapping[name]] = Cardinality(withName(name))
           /\ \A i \in sel :
                 fmtResult.detections[i].name \notin DOMAIN fmtMapping =>
                     fmtResult.detections[i].name \in DOMAIN parsed.map

\* Splitting a BrightScript message at "!!" into name:number fields: ok
\* tells whether the text is such a list with no leading, trailing or
\* doubled separator; fields are the <<name, number>> pairs in order.
ParseFields(tokens) ==
    LET count == (Len(tokens) + 1) \div 4
        wellFormed ==
            /\ (Len(tokens) + 1) % 4 = 0
            /\ \A j \in 0..(count - 1) :
                  /\ tokens[4 * j + 1] # "!!"
                  /\ tokens[4 * j + 2] = ":"
                  /\ IsNumber(tokens[4 * j + 3])
                  /\ (j < count - 1 => tokens[4 * j + 4] = "!!")
    IN IF ~wellFormed THEN [ok |-> FALSE, fields |-> <<>>]
       ELSE [ok |-> TRUE,
             fields |-> [j \in 1..count |->
                           <<tokens[4 * j - 3], NumOf(tokens[4 * j - 1])>>]]

\* C24: the SelectiveBS output is a "!!"-joined list of name:count fields
\* with no leading or trailing separator: one field per aggregated class,
\* person always among them, then the timestamp as the single last field.
C24_SelectiveBSLayout ==
    fmtKind = "SelectiveBS" =>
        LET parsed == ParseFields(fmtOut)
            counts == ExpectedCounts(fmtResult, fmtMapping)
            n == Len(parsed.fields)
        IN /\ parsed.ok
           /\ n = Cardinality(DOMAIN counts) + 1
           /\ parsed.fields[n] = <<"timestamp", fmtResult.timestamp>>
           /\ \A j \in 1..(n - 1) : parsed.fields[j][1] # "timestamp"
           /\ {parsed.fields[j] : j \in 1..(n - 1)}
                 = {<<k, counts[k]>> : k \in DOMAIN counts}
           /\ \E j \in 1..(n - 1) : parsed.fields[j][1] = "person"

\* An empty detection list under the filter {0}: person:0!!timestamp:7.
C24_Witness ==
    /\ fmtKind = "SelectiveBS"
    /\ fmtResult.selected_classes = <<0>>
    /\ fmtResult.detections = <<>>
    /\ fmtOut = <<"person", ":", "0", "!!", "timestamp", ":", "7">>

\* The positions of a key in a JSON text, and the j-th of them.
KeyPositions(tokens, key) ==
    { t \in 2..(Len(tokens) - 1) :
        tokens[t] = key /\ tokens[t - 1] = "\"" /\ tokens[t + 1] = "\"" }
NthPosition(positions, j) ==
    CHOOSE p \in positions : Cardinality({q \in positions : q < p}) = j - 1

\* The detections array of a FullJson message as a reader sees it: per
\* element, the class_id, class_name and confidence texts.
ReadDetections(tokens) ==
    LET ids == KeyPositions(tokens, "class_id")
        names == KeyPositions(tokens, "class_name")
        confs == KeyPositions(tokens, "confidence")
    IN [j \in 1..Cardinality(ids) |->
          <<tokens[NthPosition(ids, j) + 3],
            tokens[NthPosition(names, j) + 4],
            tokens[NthPosition(confs, j) + 3]>>]

\* The text of a top-level number member.
ReadMember(tokens, key) ==
    tokens[(CHOOSE p \in KeyPositions(tokens, key) : TRUE) + 3]

\* C25: FullJson returns the empty string exactly when it suppresses empty
\* output and no detection is both valid and filter-selected; otherwise the
\* detections array lists exactly the valid, filter-selected detections in
\* input order and detection_count is its length.
C25_FullJson ==
    fmtKind = "FullJson" =>
        LET Keep(d) ==
                /\ d.prop > 0 /\ d.cls_id >= 0
                /\ \/ Len(fmtResult.selected_classes) = 0
                   \/ \E f \in 1..Len(fmtResult.selected_classes) :
                         fmtResult.selected_classes[f] = d.cls_id
            kept == SelectSeq(fmtResult.detections, Keep)
        IN IF fmtSuppress /\ Len(kept) = 0
           THEN fmtOut = <<>>
           ELSE /\ fmtOut # <<>>
                /\ ReadDetections(fmtOut) =
                      [j \in 1..Len(kept) |->
                         <<ToString(kept[j].cls_id), kept[j].name,
                           ToString(kept[j].prop)>>]
                /\ Cardinality(KeyPositions(fmtOut, "detection_count")) = 1
                /\ ReadMember(fmtOut, "detection_count") = ToString(Len(kept))

\* A car and a person under the filter {0}, not suppressed: one element.
C25_Witness ==
    /\ fmtKind = "FullJson"
    /\ ~fmtSuppress
    /\ fmtResult.selected_classes = <<0>>
    /\ fmtResult.detections = <<Detection(2, "car", 80), Detection(0, "person", 90)>>
    /\ ReadDetections(fmtOut) = <<<<"0", "person", "90">>>>
    /\ ReadMember(fmtOut, "detection_count") = "1"

\* The number of detections of a Result with class id 0.
ClassZero(r) == Cardinality({i \in 1..Len(r.detections) : r.detections[i].cls_id = 0})

\* C27: FacesJson and FacesBS report, as faces_in_frame_total and as
\* faces_attending, the number of detections with class id 0, whatever the
\* class filter and whatever other detections the Result holds; so the two
\* variants agree on every Result.
C27_FacesCount ==
    /\ fmtKind = "FacesJson" =>
          LET parsed == ParseObject(fmtOut)
          IN /\ parsed.ok
             /\ parsed.map = [k \in {"faces_in_frame_total", "faces_attending",
                                     "timestamp"} |->
                                IF k = "timestamp" THEN fmtResult.timestamp
                                ELSE ClassZero(fmtResult)]
    /\ fmtKind = "FacesBS" =>
          LET parsed == ParseFields(fmtOut)
          IN /\ parsed.ok
             /\ parsed.fields = << <<"faces_in_frame_total", ClassZero(fmtResult)>>,
                                   <<"faces_attending", ClassZero(fmtResult)>>,
                                   <<"timestamp", fmtResult.timestamp>> >>

\* A person and a car under the filter {2}: the person is still counted.
C27_Witness ==
    /\ fmtKind = "FacesBS"
    /\ fmtResult.selected_classes = <<2>>
    /\ fmtResult.detections = <<Detection(0, "person", 90), Detection(2, "car", 80)>>
    /\ fmtOut = <<"faces_in_frame_total", ":", "1", "!!", "faces_attending", ":", "1",
                  "!!", "timestamp", ":", "7">>

\* C26: under --suppress-empty, when the result popped by the file sink's
\* publisher has no valid, filter-selected detection, the JSON formatter
\* main() handed the flag to yields the empty string and the results file
\* is not rewritten in that cycle.
C26_SuppressEmptyFile ==
    ( /\ suppress_empty
      /\ formatter["file"] = "Json"
      /\ pc["file"] \in {"send", "log", "sleep"}
      /\ SelectedIndexes(result["file"]) = {} )
    => /\ message["file"] = <<>>
       /\ \A i \in 1..Len(sendTrace) : sendTrace[i] # "rename"

\* C28: whatever --classes value main() is started with (none, names that
\* all fail to resolve, any list of names), the class filter the pipeline
\* is constructed with contains class id 0.
C28_PersonAlwaysSelected ==
    pcArgs = "run" => \E i \in 1..Len(selected_classes) : selected_classes[i] = 0

\* "--classes car, robot": car resolves, robot does not, person is added.
C28_Witness ==
    /\ classes_str = <<"car", ",", "robot">>
    /\ pcArgs = "run"
    /\ selected_classes = <<2, 0>>

\* The class-count map the file sink's formatter computed for a result.
ComputedCounts(kind, r) ==
    IF kind = "Json"
    THEN JsonCounts(r.detections, r.selected_classes, PersonFloor)
    ELSE SelectiveCounts(r, NoMapping)

\* C29: when FileTransport::send of the Json or SelectiveJson output
\* returns true, the target file holds exactly that output, and the object
\* parsed back from the file has the class counts the formatter computed.
C29_FileRoundTrip ==
    ( /\ formatter["file"] \in {"Json", "SelectiveJson"}
      /\ pc["file"] = "send" /\ pcSend = "ret" /\ sendRet )
    => LET counts == ComputedCounts(formatter["file"], result["file"])
           parsed == ParseObject(targetFile)
       IN /\ targetFile = message["file"]
          /\ parsed.ok
          /\ parsed.map = [k \in DOMAIN counts \cup {"timestamp"} |->
                             IF k = "timestamp" THEN result["file"].timestamp
                             ELSE counts[k]]

\* The SelectiveJson message of a result with one person was written.
C29_Witness ==
    /\ formatter["file"] = "SelectiveJson"
    /\ pc["file"] = "send" /\ pcSend = "ret" /\ sendRet
    /\ result["file"].detections = <<Detection(0, "person", 90)>>
    /\ ParseObject(targetFile).ok
    /\ ParseObject(targetFile).map["person"] = 1

CutPoints(str) == {0, Len(str) + 1} \cup {i \in 1..Len(str) : str[i] = ","}
Entries(str) ==
    LET cuts == CutPoints(str)
        cut(k) == CHOOSE c \in cuts : Cardinality({d \in cuts : d < c}) = k - 1
    IN [k \in 1..(Cardinality(cuts) - 1) |->
          SubSeq(str, cut(k) + 1, cut(k + 1) - 1)]

\* A list entry without the blanks and tabs around it.
Core(entry) ==
    LET solid == {i \in 1..Len(entry) : entry[i] \notin {" ", "\t"}}
    IN IF solid = {} THEN <<>>
       ELSE SubSeq(entry, CHOOSE i \in solid : \A j \in solid : i <= j,
                          CHOOSE i \in solid : \A j \in solid : i >= j)

\* The ids of the entries that name a class, in the order of the entries.
ExpectedIds(str, class_mapping) ==
    LET Known(entry) == Core(entry) \in DOMAIN class_mapping
        known == SelectSeq(Entries(str), Known)
    IN [k \in 1..Len(known) |-> class_mapping[Core(known[k])]]

\* C31: parseClassNames returns the ids of the comma-separated names found
\* in the mapping, in input order, blanks and tabs around a name ignored,
\* unknown and empty entries skipped; the empty string gives the empty list.
C31_ParseClassNames ==
    parseRet # <<>> =>
        /\ parseRet[1] = ExpectedIds(classes_str, CocoMapping)
        /\ (classes_str = <<>> => parseRet[1] = <<>>)

\* "car , person" was parsed: both names resolve, in input order.
C31_Witness ==
    /\ classes_str = <<"car", " ", ",", "person">>
    /\ parseRet = << <<2, 0>> >>

\* C33: when no --classes value is given, or none of the given names
\* resolves to a class id, every class id passes isClassSelected against
\* the filter the pipeline is constructed with.
C33_AllClassesByDefault ==
    ( /\ pcArgs = "run"
      /\ parseClassNames(classes_str, CocoMapping) = <<>> )
    => \A class_id \in ClassIds : isClassSelected(class_id, selected_classes)

\* C32: a publisher comes back to its pop only from the pacing sleep: every
\* iteration that popped a result, the one skipped for a disconnected
\* transport included, sleeps before the next pop.
C32_SleepBeforeNextPop ==
    [][ \A p \in Publishers :
          (pc[p] # "pop" /\ pc'[p] = "pop") => pc[p] = "sleep" ]_vars

\* C36: FileTransport::isConnected() returns the same value for the whole
\* lifetime of the transport: no step of any send, successful or failed,
\* changes it, and it stays what the constructor left.
C36_ConnectedStable ==
    [][ /\ FileIsConnected' = FileIsConnected
        /\ FileIsConnected' = FileTransportCtor(dir') ]_vars

\* A send that failed left its temp file behind, and a later send on the
\* still enabled transport has passed the `enabled` test.
C36_Witness ==
    /\ pcSend = "open"
    /\ tmpFile # Absent
    /\ FileIsConnected

\* C35: on every Result, JsonMessageFormatter and a
\* SelectiveJsonMessageFormatter without rename table return the same text.
C35_JsonEquivalence ==
    /\ fmtKind = "Json" => fmtOut = SelectiveJsonFormat(fmtResult, NoMapping)
    /\ (fmtKind = "SelectiveJson" /\ fmtMapping = NoMapping) =>
          fmtOut = JsonFormat(fmtResult)

\* Json formatted a person and a car under the filter {0}.
C35_Witness ==
    /\ fmtKind = "Json"
    /\ fmtResult.selected_classes = <<0>>
    /\ fmtResult.detections = <<Detection(0, "person", 90), Detection(2, "car", 80)>>
    /\ fmtOut = <<"{">> \o Str("person") \o <<":", "1", ",">>
                \o Str("timestamp") \o <<":", "7", "}">>
    /\ fmtOut = SelectiveJsonFormat(fmtResult, NoMapping)

\* C34: in single-shot mode, when the inference step pushed a result, the
\* file publisher's task has, whenever it exits, popped that result and
\* called send exactly once, whatever the interleaving with main's
\* running = false and signalShutdown().
C34_SingleShotDelivered ==
    (frame = 1 /\ pc["file"] = "done") =>
        /\ queue = <<>>
        /\ result["file"] = produced
        /\ sendCalls["file"] = 1

====
